---- MODULE Spec2Model ----
(***************************************************************************)
(* Static hash index over a paginated record store (Hash.py).              *)
(*                                                                         *)
(* Three specifications share this module:                                 *)
(*   SpecStore  make_pages and table_scan over a page store                *)
(*   SpecChain  BucketNode.insert on one bucket chain                      *)
(*   Spec       HashIndex: __init__, build, find_page and the statistics   *)
(***************************************************************************)
EXTENDS Integers, Sequences, FiniteSets, TLC

(***************************************************************************)
(* Bounds of the model.                                                    *)
(***************************************************************************)
MaxWords == 4
MaxPageSize == 2
MaxFR == 2
MaxNegFR == 2
MaxInserts == 4

(***************************************************************************)
(* Keys are strings; a key is the sequence of the code points of its       *)
(* characters (ord(ch)): "a" and "aaaaaaa".  The second one is long enough *)
(* for the 32-bit accumulator of hash_fn to wrap around; the two fall in   *)
(* the same bucket for 2 and 4 buckets and in different ones for 3 and 5.  *)
(***************************************************************************)
KeyA == <<97>>
KeyA7 == <<97, 97, 97, 97, 97, 97, 97>>
Keys == {KeyA, KeyA7}

\* Python's None, as returned by find / find_page / table_scan.
None == -1

\* The absent successor of a node (node.next is None); nodes are numbered from 1.
NoNode == 0

SeqsUpTo(S, n) == UNION {[1..k -> S] : k \in 0..n}

Min(a, b) == IF a < b THEN a ELSE b

(***************************************************************************)
(* Page store.                                                             *)
(***************************************************************************)
Page(page_id, records) == [page_id |-> page_id, records |-> records]

\* words[lo:hi] of Python, for 0 <= lo: the elements at 0-based positions lo..hi-1,
\* clamped to the length of the list.
Slice(s, lo, hi) == SubSeq(s, lo + 1, Min(hi, Len(s)))

\* The loop of make_pages: for i in range(0, len(words), page_size).
RECURSIVE MakePagesLoop(_, _, _, _, _)
MakePagesLoop(words_, size, i, page_id, acc) ==
    IF i >= Len(words_)
    THEN acc
    ELSE MakePagesLoop(words_, size, i + size, page_id + 1,
                       Append(acc, Page(page_id, Slice(words_, i, i + size))))

\* make_pages with page_id starting at 1.
make_pages_from_one(words_, size) == MakePagesLoop(words_, size, 0, 1, <<>>)

make_pages(words_, size) == MakePagesLoop(words_, size, 0, 0, <<>>)

\* key in p.records
InRecords(key, records) == \E j \in 1..Len(records) : records[j] = key

\* The loop of table_scan with cost += 1 after the membership test.
RECURSIVE TableScanLoopCountAfter(_, _, _, _)
TableScanLoopCountAfter(pgs, key, i, cost) ==
    IF i > Len(pgs)
    THEN [page_id |-> None, cost |-> cost]
    ELSE IF InRecords(key, pgs[i].records)
         THEN [page_id |-> pgs[i].page_id, cost |-> cost]
         ELSE TableScanLoopCountAfter(pgs, key, i + 1, cost + 1)

\* The loop of table_scan; i is the 1-based position of the next page to read.
RECURSIVE TableScanLoop(_, _, _, _)
TableScanLoop(pgs, key, i, cost) ==
    IF i > Len(pgs)
    THEN [page_id |-> None, cost |-> cost]
    ELSE IF InRecords(key, pgs[i].records)
         THEN [page_id |-> pgs[i].page_id, cost |-> cost + 1]
         ELSE TableScanLoop(pgs, key, i + 1, cost + 1)

table_scan(pgs, key) == TableScanLoop(pgs, key, 1, 0)

(***************************************************************************)
(* Bucket chains.  BucketNode objects live in a heap `nodes`, a sequence   *)
(* of nodes; a reference to a node is its position in the heap.            *)
(***************************************************************************)
BucketNode(capacity) == [capacity |-> capacity, items |-> <<>>, next |-> NoNode]

\* The loop of insert with `<=` for `<`: a full node takes one more entry.
RECURSIVE InsertWalkOffByOne(_, _, _, _, _)
InsertWalkOffByOne(nodes, self, node, key, page_id) ==
    IF Len(nodes[node].items) <= nodes[node].capacity
    THEN [nodes |-> [nodes EXCEPT ![node].items = Append(@, <<key, page_id>>)],
          went_overflow |-> node # self]
    ELSE IF nodes[node].next = NoNode
         THEN LET new == Len(nodes) + 1
                  linked == [nodes EXCEPT ![node].next = new]
              IN InsertWalkOffByOne(Append(linked, BucketNode(nodes[self].capacity)),
                                    self, new, key, page_id)
         ELSE InsertWalkOffByOne(nodes, self, nodes[node].next, key, page_id)

\* The loop of insert, at node `node` of the chain whose head is `self`.
\* It does not end when the capacity is <= 0 (no node ever has room); callers
\* decide that case with InsertDiverges before walking.
RECURSIVE InsertWalk(_, _, _, _, _)
InsertWalk(nodes, self, node, key, page_id) ==
    IF Len(nodes[node].items) < nodes[node].capacity
    THEN [nodes |-> [nodes EXCEPT ![node].items = Append(@, <<key, page_id>>)],
          went_overflow |-> node # self]
    ELSE IF nodes[node].next = NoNode
         THEN LET new == Len(nodes) + 1
                  linked == [nodes EXCEPT ![node].next = new]
              IN InsertWalk(Append(linked, BucketNode(nodes[self].capacity)),
                            self, new, key, page_id)
         ELSE InsertWalk(nodes, self, nodes[node].next, key, page_id)

\* With capacity <= 0 every node is full from the start and every full node gets a
\* fresh successor of the same capacity: the while True loop never returns (it
\* allocates nodes until the memory is exhausted).
InsertDiverges(nodes, self) == nodes[self].capacity <= 0

insert(nodes, self, key, page_id) == InsertWalk(nodes, self, self, key, page_id)

\* for k, pid in node.items, keeping the last match instead of returning the first.
RECURSIVE ScanItemsLast(_, _, _)
ScanItemsLast(items, key, j) ==
    IF j > Len(items)
    THEN None
    ELSE LET later == ScanItemsLast(items, key, j + 1)
         IN IF later # None THEN later
            ELSE IF items[j][1] = key THEN items[j][2] ELSE None

\* for k, pid in node.items: the page id of the first entry with this key.
RECURSIVE ScanItems(_, _, _)
ScanItems(items, key, j) ==
    IF j > Len(items)
    THEN None
    ELSE IF items[j][1] = key
         THEN items[j][2]
         ELSE ScanItems(items, key, j + 1)

\* while node is not None
RECURSIVE FindWalk(_, _, _)
FindWalk(nodes, node, key) ==
    IF node = NoNode
    THEN None
    ELSE LET pid == ScanItems(nodes[node].items, key, 1)
         IN IF pid # None
            THEN pid
            ELSE FindWalk(nodes, nodes[node].next, key)

find(nodes, self, key) == FindWalk(nodes, self, key)

(***************************************************************************)
(* Hash function: h = (h * 31 + ord(ch)) & 0xFFFFFFFF, then h % nb.        *)
(* The 32-bit accumulator is kept as two 16-bit halves so that no          *)
(* intermediate value leaves the range of the checker's integers.          *)
(***************************************************************************)
Half == 65536

HashRound(h, c) ==
    LET lo == h.lo * 31 + c
        hi == h.hi * 31 + (lo \div Half)
    IN [hi |-> hi % Half, lo |-> lo % Half]

RECURSIVE HashAcc(_, _, _)
HashAcc(key, i, h) ==
    IF i > Len(key) THEN h ELSE HashAcc(key, i + 1, HashRound(h, key[i]))

\* (hi * 2^16 + lo) mod m, for m > 0.
ModHalves(h, m) == ((h.hi % m) * (Half % m) + (h.lo % m)) % m

\* h % nb with Python's sign rule (the result has the sign of nb); nb # 0.
hash_fn(key, nb) ==
    LET h == HashAcc(key, 1, [hi |-> 0, lo |-> 0])
    IN IF nb > 0
       THEN ModHalves(h, nb)
       ELSE LET r == ModHalves(h, 0 - nb)
            IN IF r = 0 THEN 0 ELSE r + nb

(***************************************************************************)
(* Hash index.                                                             *)
(***************************************************************************)
HashIndex(fr) ==
    [fr |-> fr, nb |-> 0, buckets |-> <<>>, nodes |-> <<>>,
     inserts |-> 0, collision_inserts |-> 0, overflow_inserts |-> 0]

\* The outcome of a call: a returned value, or the exception it raised.
Return(v) == [exc |-> "none", value |-> v]
Raise(e) == [exc |-> e, value |-> None]

\* sum(len(p.records) for p in pages)
RECURSIVE NumRecords(_)
NumRecords(pgs) ==
    IF pgs = <<>> THEN 0 ELSE Len(pgs[1].records) + NumRecords(Tail(pgs))

\* The (key, page_id) pairs in the order the two loops of build visit them.
RECURSIVE Records(_)
Records(pgs) ==
    IF pgs = <<>>
    THEN <<>>
    ELSE [j \in 1..Len(pgs[1].records) |-> <<pgs[1].records[j], pgs[1].page_id>>]
         \o Records(Tail(pgs))

\* math.ceil(nr / fr) for nr >= 0 and fr # 0.
CeilDiv(nr, fr) ==
    IF fr > 0
    THEN (nr + fr - 1) \div fr
    ELSE 0 - (nr \div (0 - fr))

\* self.nb without the + 1.
NumBucketsNoSlack(nr, fr) == CeilDiv(nr, fr)

NumBuckets(nr, fr) == CeilDiv(nr, fr) + 1

\* self.nb = ...; self.buckets = [BucketNode(self.fr) for _ in range(self.nb)]
\* The nodes of the previous build are no longer referenced.
Allocate(ix, nr) ==
    LET nb == NumBuckets(nr, ix.fr)
    IN [ix EXCEPT !.nb = nb,
                  !.buckets = [i \in 1..nb |-> i],
                  !.nodes = [i \in 1..nb |-> BucketNode(ix.fr)]]

\* The reset of the counters without self.collision_inserts = 0.
ResetCountersKeepCollisions(ix) ==
    [ix EXCEPT !.inserts = 0, !.overflow_inserts = 0]

ResetCounters(ix) ==
    [ix EXCEPT !.inserts = 0, !.collision_inserts = 0, !.overflow_inserts = 0]

\* The collision test as len(primary.items) >= capacity.
CountCollisionWhenFull(ix, primary) ==
    IF Len(ix.nodes[primary].items) >= ix.nodes[primary].capacity
    THEN [ix EXCEPT !.collision_inserts = @ + 1]
    ELSE ix

\* if len(primary.items) > 0: self.collision_inserts += 1
CountCollision(ix, primary) ==
    IF Len(ix.nodes[primary].items) > 0
    THEN [ix EXCEPT !.collision_inserts = @ + 1]
    ELSE ix

\* self.inserts += 1 in an else branch of `if went_overflow`.
CountInsertElse(ix, went_overflow) ==
    IF went_overflow
    THEN [ix EXCEPT !.overflow_inserts = @ + 1]
    ELSE [ix EXCEPT !.inserts = @ + 1]

\* if went_overflow: self.overflow_inserts += 1; self.inserts += 1
CountInsert(ix, went_overflow) ==
    LET c == IF went_overflow THEN [ix EXCEPT !.overflow_inserts = @ + 1] ELSE ix
    IN [c EXCEPT !.inserts = @ + 1]

\* lst[b] of Python: positions -len..len-1 are valid, negative ones count from the end.
ValidIndex(b, len) == 0 - len <= b /\ b < len
ListPos(b, len) == IF b >= 0 THEN b + 1 ELSE len + b + 1

\* One iteration of the inner loop of build.
BuildStep(ix, key, page_id) ==
    IF ix.nb = 0
    THEN [exc |-> "ZeroDivisionError", ix |-> ix]
    ELSE LET b == hash_fn(key, ix.nb)
         IN IF ~ValidIndex(b, Len(ix.buckets))
            THEN [exc |-> "IndexError", ix |-> ix]
            ELSE LET primary == ix.buckets[ListPos(b, Len(ix.buckets))]
                     counted == CountCollision(ix, primary)
                 IN IF InsertDiverges(counted.nodes, primary)
                    THEN [exc |-> "diverges", ix |-> counted]
                    ELSE LET r == insert(counted.nodes, primary, key, page_id)
                         IN [exc |-> "none",
                             ix |-> CountInsert([counted EXCEPT !.nodes = r.nodes],
                                                r.went_overflow)]

\* for page in pages: for key in page.records
RECURSIVE BuildLoop(_, _, _)
BuildLoop(ix, recs, i) ==
    IF i > Len(recs)
    THEN [exc |-> "none", ix |-> ix]
    ELSE LET r == BuildStep(ix, recs[i][1], recs[i][2])
         IN IF r.exc # "none" THEN r ELSE BuildLoop(r.ix, recs, i + 1)

\* nr / self.fr raises ZeroDivisionError before anything is assigned.
build(ix, pgs) ==
    IF ix.fr = 0
    THEN [exc |-> "ZeroDivisionError", ix |-> ix]
    ELSE BuildLoop(ResetCounters(Allocate(ix, NumRecords(pgs))), Records(pgs), 1)

\* find_page without the `if not self.buckets` guard.
find_page_unguarded(ix, key) ==
    IF ix.nb = 0
    THEN Raise("ZeroDivisionError")
    ELSE LET b == hash_fn(key, ix.nb)
         IN IF ~ValidIndex(b, Len(ix.buckets))
            THEN Raise("IndexError")
            ELSE Return(find(ix.nodes, ix.buckets[ListPos(b, Len(ix.buckets))], key))

find_page(ix, key) ==
    IF ix.buckets = <<>>
    THEN Return(None)
    ELSE IF ix.nb = 0
         THEN Raise("ZeroDivisionError")
         ELSE LET b == hash_fn(key, ix.nb)
              IN IF ~ValidIndex(b, Len(ix.buckets))
                 THEN Raise("IndexError")
                 ELSE Return(find(ix.nodes, ix.buckets[ListPos(b, Len(ix.buckets))], key))

\* A rate is the exact quotient num / den of the float the code returns.
Rate(num, den) == [num |-> num, den |-> den]

collision_rate(ix) ==
    IF ix.inserts # 0 THEN Rate(ix.collision_inserts * 100, ix.inserts) ELSE Rate(0, 1)

overflow_rate(ix) ==
    IF ix.inserts # 0 THEN Rate(ix.overflow_inserts * 100, ix.inserts) ELSE Rate(0, 1)

(***************************************************************************)
(* State.                                                                  *)
(*   words, page_size, pages   the page store and the arguments it was     *)
(*                             made from                                   *)
(*   scan                      the call and result of the last table_scan  *)
(*   chain, chainLog, chainRet one bucket chain (head at position 1), the  *)
(*                             entries inserted into it so far, and the    *)
(*                             value the last insert returned              *)
(*   index                     the HashIndex object                        *)
(*   status                    "new", or how the last build ended          *)
(*   indexed                   the pages passed to the last build          *)
(*   hadEntries                whether the index held entries when the     *)
(*                             last build started                          *)
(*   found                     the call and outcome of the last find_page  *)
(***************************************************************************)
VARIABLES words, page_size, pages, scan,
          chain, chainLog, chainRet,
          index, status, indexed, hadEntries, found

storeVars == <<words, page_size, pages, scan>>
chainVars == <<chain, chainLog, chainRet>>
indexVars == <<index, status, indexed, hadEntries, found>>
vars == <<storeVars, chainVars, indexVars>>

FRValues == (0 - MaxNegFR)..MaxFR
PageIds == 0..1
WordLists == SeqsUpTo(Keys, MaxWords)
PageStores == {make_pages(w, s) : w \in WordLists, s \in 1..MaxPageSize}

NoScan == [called |-> FALSE, key |-> <<>>, page_id |-> None, cost |-> 0]
NoFind == [called |-> FALSE, key |-> <<>>, exc |-> "none", value |-> None]

StoreInit ==
    /\ words = <<>>
    /\ page_size = 1
    /\ pages = <<>>
    /\ scan = NoScan

\* A chain head of one of the capacities C, nothing inserted yet.
ChainInit(C) ==
    /\ chain \in {<<BucketNode(c)>> : c \in C}
    /\ chainLog = <<>>
    /\ chainRet = FALSE

\* A newly constructed index with one of the capacities F.
IndexInit(F) ==
    /\ index \in {HashIndex(f) : f \in F}
    /\ status = "new"
    /\ indexed = <<>>
    /\ hadEntries = FALSE
    /\ found = NoFind

\* The caller loads a word list and splits it into pages (on_build, steps 2-3);
\* the output of earlier searches is cleared.
DoMakePages ==
    \E w \in WordLists, s \in 1..MaxPageSize :
        /\ words' = w
        /\ page_size' = s
        /\ pages' = make_pages(w, s)
        /\ scan' = NoScan
        /\ UNCHANGED <<chainVars, indexVars>>

\* The caller scans the current page store for a key (on_scan).
DoTableScan ==
    \E k \in Keys :
        LET r == table_scan(pages, k)
        IN /\ scan' = [called |-> TRUE, key |-> k, page_id |-> r.page_id, cost |-> r.cost]
           /\ UNCHANGED <<words, page_size, pages, chainVars, indexVars>>

\* head.insert(key, page_id) on the chain.
DoInsert ==
    /\ Len(chainLog) < MaxInserts
    /\ \E k \in Keys, p \in PageIds :
        LET r == insert(chain, 1, k, p)
        IN /\ chain' = r.nodes
           /\ chainRet' = r.went_overflow
           /\ chainLog' = Append(chainLog, <<k, p>>)
           /\ UNCHANGED <<storeVars, indexVars>>

\* HashIndex(fr): the caller replaces the index by a newly constructed one.
DoNewIndex ==
    \E f \in FRValues :
        /\ index' = HashIndex(f)
        /\ status' = "new"
        /\ indexed' = <<>>
        /\ hadEntries' = FALSE
        /\ found' = NoFind
        /\ UNCHANGED <<storeVars, chainVars>>

\* index.build(pages).  A build that does not return leaves the program stuck.
DoBuild ==
    /\ status # "diverges"
    /\ \E p \in PageStores :
        LET r == build(index, p)
        IN /\ index' = r.ix
           /\ status' = IF r.exc = "none" THEN "built" ELSE r.exc
           /\ indexed' = p
           /\ hadEntries' = (index.inserts > 0)
           /\ found' = NoFind
           /\ UNCHANGED <<storeVars, chainVars>>

\* index.find_page(key)
DoFindPage ==
    /\ status # "diverges"
    /\ \E k \in Keys :
        LET r == find_page(index, k)
        IN /\ found' = [called |-> TRUE, key |-> k, exc |-> r.exc, value |-> r.value]
           /\ UNCHANGED <<index, status, indexed, hadEntries, storeVars, chainVars>>

StoreSpecInit == StoreInit /\ ChainInit({1}) /\ IndexInit({1})
ChainSpecInit == StoreInit /\ ChainInit(1..MaxFR) /\ IndexInit({1})
Init == StoreInit /\ ChainInit({1}) /\ IndexInit(FRValues)

StoreNext == DoMakePages \/ DoTableScan
ChainNext == DoInsert
Next == DoNewIndex \/ DoBuild \/ DoFindPage

SpecStore == StoreSpecInit /\ [][StoreNext]_vars
SpecChain == ChainSpecInit /\ [][ChainNext]_vars
Spec == Init /\ [][Next]_vars

(***************************************************************************)
(* Vocabulary of the properties, defined without the operators above.      *)
(***************************************************************************)
Range(seq) == {seq[j] : j \in 1..Len(seq)}

\* The records of all pages, in store order.
RECURSIVE Concat(_)
Concat(pgs) == IF pgs = <<>> THEN <<>> ELSE pgs[1].records \o Concat(Tail(pgs))

\* The positions of the pages that hold the key.
Holders(k, pgs) == {i \in 1..Len(pgs) : k \in Range(pgs[i].records)}
Held(k, pgs) == Holders(k, pgs) # {}
FirstHolder(k, pgs) == CHOOSE i \in Holders(k, pgs) : \A j \in Holders(k, pgs) : i <= j

\* The nodes of a chain in chain order, following at most `fuel` links.
RECURSIVE ChainPath(_, _, _)
ChainPath(nodes, node, fuel) ==
    IF node = NoNode \/ fuel = 0
    THEN <<>>
    ELSE <<node>> \o ChainPath(nodes, nodes[node].next, fuel - 1)

\* The node reached from `node` after `steps` links (NoNode once the chain has ended).
RECURSIVE Hop(_, _, _)
Hop(nodes, node, steps) ==
    IF node = NoNode \/ steps = 0 THEN node ELSE Hop(nodes, nodes[node].next, steps - 1)

\* The entries of the nodes of a path, one node after the other.
RECURSIVE PathItems(_, _)
PathItems(nodes, path) ==
    IF path = <<>> THEN <<>> ELSE nodes[path[1]].items \o PathItems(nodes, Tail(path))

\* The number of entries held by the nodes of a set.
RECURSIVE EntriesIn(_, _)
EntriesIn(nodes, ids) ==
    IF ids = {}
    THEN 0
    ELSE LET n == CHOOSE n \in ids : TRUE
         IN Len(nodes[n].items) + EntriesIn(nodes, ids \ {n})

InPercentRange(r) == r.den > 0 /\ 0 <= r.num /\ r.num <= 100 * r.den

\* A build of an index with FR > 0 has returned, and no other build since.
Built == status = "built" /\ index.fr > 0

(***************************************************************************)
(* SpecStore                                                               *)
(***************************************************************************)

\* C5: make_pages numbers the pages 0, 1, 2, ... in creation order, their records
\* concatenated give back the input, every page but the last holds exactly
\* page_size records, the last one between 1 and page_size, and an empty input
\* gives no page.
C5_MakePagesShape ==
    /\ \A i \in 1..Len(pages) : pages[i].page_id = i - 1
    /\ Concat(pages) = words
    /\ \A i \in 1..(Len(pages) - 1) : Len(pages[i].records) = page_size
    /\ pages # <<>> => Len(pages[Len(pages)].records) \in 1..page_size
    /\ words = <<>> => pages = <<>>

\* Three words in pages of two: a full page and a partly filled last page.
C5_Witness ==
    /\ Len(words) = 3
    /\ page_size = 2
    /\ Len(pages) = 2
    /\ Len(pages[2].records) = 1

\* C6: table_scan returns the id and the 1-based position of the first page that
\* holds the key, or None and the number of pages when no page holds it.
C6_TableScanResult ==
    scan.called =>
        IF Held(scan.key, pages)
        THEN /\ scan.page_id = pages[FirstHolder(scan.key, pages)].page_id
             /\ scan.cost = FirstHolder(scan.key, pages)
        ELSE /\ scan.page_id = None
             /\ scan.cost = Len(pages)

\* A scan that skipped a page, found the key, and left a later page holding the
\* key unread.
C6_Witness ==
    /\ scan.called
    /\ scan.page_id # None
    /\ scan.cost >= 2
    /\ \E i \in Holders(scan.key, pages) : i > scan.cost

(***************************************************************************)
(* SpecChain                                                               *)
(***************************************************************************)

\* C9: after any sequence of inserts on a head of capacity >= 1 the chain is
\* acyclic, no node holds more than capacity entries, every node with a successor
\* is full, no overflow node is empty, and the entries read node by node are the
\* inserted entries in insertion order.
C9_ChainShape ==
    LET path == ChainPath(chain, 1, Len(chain))
    IN /\ Hop(chain, 1, Len(chain)) = NoNode
       /\ \A i \in 1..Len(path) :
            /\ Len(chain[path[i]].items) <= chain[path[i]].capacity
            /\ chain[path[i]].next # NoNode =>
                 Len(chain[path[i]].items) = chain[path[i]].capacity
       /\ \A i \in 2..Len(path) : chain[path[i]].items # <<>>
       /\ PathItems(chain, path) = chainLog

\* An insert went to an overflow node, which still has room.
C9_Witness ==
    /\ chainRet
    /\ Len(chain) >= 2
    /\ chain[1].next # NoNode
    /\ Len(chain[Len(chain)].items) < chain[Len(chain)].capacity

(***************************************************************************)
(* Spec                                                                    *)
(***************************************************************************)

\* C1: after build with FR > 0, find_page of a key held by some page returns the
\* id of the first page in store order that holds it.
C1_FindFirstPage ==
    Built =>
        /\ \A k \in Keys :
             Held(k, indexed) =>
                 find_page(index, k) = Return(indexed[FirstHolder(k, indexed)].page_id)
        /\ (found.called /\ Held(found.key, indexed)) =>
             /\ found.exc = "none"
             /\ found.value = indexed[FirstHolder(found.key, indexed)].page_id

\* A lookup of a key that two pages hold returned the first of them.
C1_Witness ==
    /\ Built
    /\ found.called
    /\ Cardinality(Holders(found.key, indexed)) >= 2
    /\ found.value = indexed[FirstHolder(found.key, indexed)].page_id

\* C2: with FR > 0, never built or built any number of times, find_page of a key
\* that no page of the last build holds returns None and does not raise.
C2_AbsentNotFound ==
    index.fr > 0 =>
        /\ \A k \in Keys : ~Held(k, indexed) => find_page(index, k) = Return(None)
        /\ (found.called /\ ~Held(found.key, indexed)) =>
             /\ found.exc = "none"
             /\ found.value = None

\* A lookup in a built, non-empty index of a key that no page holds.
C2_Witness ==
    /\ Built
    /\ index.inserts > 0
    /\ found.called
    /\ ~Held(found.key, indexed)
    /\ found.value = None

\* C3: after build with FR > 0, nb = ceil(NR / FR) + 1 (nb - 1 is the least q with
\* q * FR >= NR), nb >= 1, nb = 1 when NR = 0, and there are exactly nb distinct
\* bucket heads, each of capacity FR.
C3_BucketCount ==
    Built =>
        LET nr == Len(Concat(indexed))
        IN /\ (index.nb - 1) * index.fr >= nr
           /\ (index.nb - 2) * index.fr < nr
           /\ index.nb >= 1
           /\ nr = 0 => index.nb = 1
           /\ Len(index.buckets) = index.nb
           /\ Cardinality(Range(index.buckets)) = index.nb
           /\ \A i \in 1..Len(index.buckets) :
                index.nodes[index.buckets[i]].capacity = index.fr

\* A build where NR is more than FR and not a multiple of it.
C3_Witness ==
    /\ Built
    /\ index.fr = 2
    /\ Len(Concat(indexed)) = 3
    /\ index.nb = 3

\* C4: an index with FR <= 0 is rejected when it is configured, so no build ever
\* starts on one.
C4_NoBuildWithBadFR == status # "new" => index.fr > 0

\* C7: with FR > 0, before and after any build, 0 <= collision_inserts <= inserts
\* and 0 <= overflow_inserts <= inserts, both rates are within [0, 100], and both
\* are 0 when inserts = 0.
C7_CountersAndRates ==
    index.fr > 0 =>
        /\ 0 <= index.collision_inserts /\ index.collision_inserts <= index.inserts
        /\ 0 <= index.overflow_inserts /\ index.overflow_inserts <= index.inserts
        /\ InPercentRange(collision_rate(index))
        /\ InPercentRange(overflow_rate(index))
        /\ index.inserts = 0 =>
             /\ collision_rate(index).num = 0
             /\ overflow_rate(index).num = 0

\* A build that counted collisions and overflows, and some insert that was neither.
C7_Witness ==
    /\ Built
    /\ index.overflow_inserts > 0
    /\ index.collision_inserts > index.overflow_inserts
    /\ index.inserts > index.collision_inserts

\* C8: a build on an index that was built before leaves the index as a single
\* build of the same pages on a new index of the same FR does; the counters do
\* not accumulate.
C8_RebuildReplaces ==
    Built =>
        /\ index = build(HashIndex(index.fr), indexed).ix
        /\ index.inserts = Len(Concat(indexed))
        /\ \A k \in Keys :
             find_page(index, k) = find_page(build(HashIndex(index.fr), indexed).ix, k)

\* A rebuild, from a single record, of an index that held entries.
C8_Witness ==
    /\ Built
    /\ hadEntries
    /\ index.inserts = 1

\* C10: after build with FR > 0, inserts = NR, collision_inserts = NR minus the
\* number of non-empty head buckets, overflow_inserts = the number of entries in
\* overflow nodes, and overflow_inserts <= collision_inserts.
C10_CollisionAndOverflow ==
    Built =>
        LET nr == Len(Concat(indexed))
            heads == Range(index.buckets)
            used == {n \in heads : index.nodes[n].items # <<>>}
        IN /\ index.inserts = nr
           /\ index.collision_inserts = nr - Cardinality(used)
           /\ index.overflow_inserts =
                EntriesIn(index.nodes, (1..Len(index.nodes)) \ heads)
           /\ index.overflow_inserts <= index.collision_inserts

\* A build with an insert into a non-empty head that had room (a collision, no
\* overflow) and an insert into an overflow node.
C10_Witness ==
    /\ Built
    /\ index.overflow_inserts > 0
    /\ index.collision_inserts > index.overflow_inserts

====
